---- MODULE Spec2Model ----
(***************************************************************************)
(* Job lifecycle and delivery state machine of the download API            *)
(* (src/main.py): the DownloadManager job store, the background            *)
(* process_job worker, the GET /download/{job_id}/file handler with its    *)
(* deferred post-delivery action, and DELETE /cleanup/{job_id}.            *)
(*                                                                         *)
(* Every acquisition of DownloadManager._lock and every access to the      *)
(* filesystem or to Google Drive is one atomic step; computations on a     *)
(* handler's private snapshot are folded into the step that took it.       *)
(*                                                                         *)
(* Spec is the API server; FairSpec adds scheduling of tasks and handlers; *)
(* ClockSpec lets time pass between steps; ManagerSpec is a program that   *)
(* calls the DownloadManager directly; DownloadVideoSpec a direct call of  *)
(* download_video.                                                         *)
(***************************************************************************)
EXTENDS Naturals, FiniteSets, Sequences, TLC

\* ------------------------------------------------------------------ bounds
MaxJobs == 2        \* jobs that POST /download creates
MaxHandlers == 2    \* request handlers (GET file / DELETE cleanup) in flight at once
MaxRequests == 3    \* HTTP requests (POST, GET and DELETE) received in a run
MaxClock == 1       \* the last reading of time.time(); the first is 0
MaxHeld == 2        \* job dicts a direct caller of the manager holds at once

JobIds == 1..MaxJobs
HandlerIds == 1..MaxHandlers

\* ------------------------------------------------------------------ values
\* Python's None. Every nullable field holds None or a non-empty tuple.
None == <<>>

\* str(exc) of an exception raised by the extraction engine or the relay
\* client: the message may be empty (an exception built without arguments).
Messages == {"", "boom"}

\* A Python str with content m, as a value distinct from None.
Str(m) == <<m>>

\* Truthiness of an Optional[str], as `if remote_error:` tests it.
Truthy(s) == s # None /\ s # Str("")

\* %(title)s of the video behind a url, as the engine reports it.
TitleOf(url) == IF url = "https://www.bilibili.com/video/BV1" THEN "BV1" ELSE "BV2"

\* download_video, lines 332 and 345: the file the engine writes is
\* output_dir / "%(title)s.%(ext)s", whatever job asked for it: two jobs with
\* the same url and the same directory write the same path.
OutputFileOf(url, output_path) == <<"file", output_path, TitleOf(url)>>

\* create_job, line 451: str(Path(output_path or ".").expanduser()); Path drops
\* a trailing separator and a "." component, expanduser replaces a leading "~".
PathStr(output_path) ==
    LET p == IF output_path = <<>> \/ output_path = <<"">> THEN "." ELSE output_path[1]
    IN CASE p = "./" -> "."
         [] p = "out/" -> "out"
         [] p = "./out" -> "out"
         [] p = "~" -> "/home/user"
         [] OTHER -> p

\* f"/download/{job_id}/file"
DownloadUrlOf(job_id) == <<"/download/", job_id, "/file">>

\* upload_file, line 148: response["id"], the id Drive gives the file it
\* creates for a job's artifact.
FileIdOf(job_id) == <<"drive", job_id>>

\* GoogleDriveClient.upload_file's result for the artifact of a job, lines
\* 147-166; has_view_link: the response of files().create has a webViewLink.
\* view_url = response.get("webViewLink") or download_url.
UploadFile(job_id, has_view_link) ==
    LET download_url == <<"https://drive.google.com/uc?export=download&id=", job_id>>
    IN [file_id |-> FileIdOf(job_id),
        download_url |-> download_url,
        view_url |-> IF has_view_link THEN <<"webViewLink", job_id>> ELSE download_url]

Statuses ==
    {"queued", "downloading", "completed", "failed",
     "delivering", "downloaded", "delivered"}

\* FORMAT_PRESETS: preset key -> the "format" entry of the preset.
FORMAT_PRESETS ==
    [auto |-> "best",
     merge_best |-> "bv*+ba/best",
     video_only |-> "bv*",
     audio_only |-> "ba/best"]

\* valid_formats = list(FORMAT_PRESETS.keys()) with the preset keys left open
\* to a raw selector.
valid_formats_with_raw == DOMAIN FORMAT_PRESETS \cup {"bv*+ba"}

\* valid_formats = list(FORMAT_PRESETS.keys())
valid_formats == DOMAIN FORMAT_PRESETS

\* Paths a caller may name as ffmpeg_location: an existing file, an existing
\* directory, and a path that does not exist.
FfmpegFile == "ffmpeg/bin/ffmpeg.exe"
FfmpegDir == "ffmpeg/bin"

\* a or b on Optional[str] values.
PyOr(a, b) == IF Truthy(a) THEN a ELSE b

\* resolve_ffmpeg_location, lines 30-36: a custom path resolves to the
\* directory that holds the binaries, or raises FileNotFoundError.
resolve_custom_ffmpeg(custom_path) ==
    IF custom_path[1] = FfmpegFile THEN [raised |-> FALSE, value |-> Str(FfmpegDir)]
    ELSE IF custom_path[1] = FfmpegDir THEN [raised |-> FALSE, value |-> custom_path]
    ELSE [raised |-> TRUE, value |-> None]

\* DEFAULT_FFMPEG_DIR, resolved.
DefaultFfmpegDir == "SCRIPT_DIR/ffmpeg/bin"

\* resolve_ffmpeg_location(custom_path); bundled: DEFAULT_FFMPEG_DIR exists.
resolve_ffmpeg_location(custom_path, bundled) ==
    IF Truthy(custom_path) THEN resolve_custom_ffmpeg(custom_path)
    ELSE [raised |-> FALSE,
          value |-> IF bundled THEN Str(DefaultFfmpegDir) ELSE None]

\* resolve_format_choice with the empty input passed through.
resolve_format_choice_passes_empty(format_choice) ==
    IF format_choice \in DOMAIN FORMAT_PRESETS
    THEN FORMAT_PRESETS[format_choice]
    ELSE format_choice

\* resolve_format_choice: the preset's expression for a preset key, otherwise
\* format_choice or FORMAT_PRESETS["auto"]["format"].
resolve_format_choice(format_choice) ==
    IF format_choice \in DOMAIN FORMAT_PRESETS
    THEN FORMAT_PRESETS[format_choice]
    ELSE IF format_choice # "" THEN format_choice
    ELSE FORMAT_PRESETS["auto"]

\* ------------------------------------------------------------------ state
VARIABLES
    jobs,              \* DownloadManager._jobs: job id -> job dict
    fs,                \* local files that exist on disk
    drive_client,      \* _google_drive_client is not None
    drive_uploaded,    \* remote ids that GoogleDriveClient.upload_file has created
    drive_deleted,     \* remote ids for which GoogleDriveClient.delete_file was called
    drive_failed,      \* remote ids for which a call of delete_file raised
    worker,            \* per job: the background process_job task
    handlers,          \* per handler slot: the request being served
    requests,          \* number of HTTP requests received so far
    delivered_once,    \* history: jobs whose status has been "delivered"
    auto_returned,     \* history: jobs an auto-delete delivery has answered with the file
    cli,               \* a direct call of download_video (CLI, GUI or library use)
    post,              \* the last POST /download: its format, ffmpeg_location and response
    cleanup_seq,       \* history: DELETE /cleanup calls made in a row, nothing in between
    caller,            \* a direct caller of the DownloadManager and the dicts it was returned
    now,               \* what time.time() returns
    lock               \* the thread inside a `with self._lock:` block of the manager

driveVars == <<drive_client, drive_uploaded, drive_deleted, drive_failed>>
histVars == <<delivered_once, auto_returned>>

vars == <<jobs, fs, driveVars, worker, handlers, requests, post, histVars, cleanup_seq, cli,
          caller, now, lock>>

\* ------------------------------------------------------------------ job store
\* Function update of a dict: d.update(u) for a record u of new field values.
Update(job, updates) ==
    [k \in DOMAIN job |-> IF k \in DOMAIN updates THEN updates[k] ELSE job[k]]

\* create_job with download_url already set on the new job.
NewJob_with_download_url(job_id, url, output_path, format_choice, ffmpeg_location, created_at, updated_at) ==
    [id |-> job_id,
     url |-> url,
     output_path |-> PathStr(output_path),
     format |-> format_choice,
     ffmpeg_location |-> ffmpeg_location,
     status |-> "queued",
     output_file |-> None,
     download_url |-> DownloadUrlOf(job_id),
     remote_file_id |-> None,
     remote_file_url |-> None,
     remote_file_view_url |-> None,
     error |-> None,
     created_at |-> created_at,
     updated_at |-> updated_at]

\* DownloadManager.create_job, lines 448-463: the new job dict. created_at and
\* updated_at are two readings of time.time(), taken one after the other
\* before the lock is asked for.
NewJob(job_id, url, output_path, format_choice, ffmpeg_location, created_at, updated_at) ==
    [id |-> job_id,
     url |-> url,
     output_path |-> PathStr(output_path),
     format |-> format_choice,
     ffmpeg_location |-> ffmpeg_location,
     status |-> "queued",
     output_file |-> None,
     download_url |-> None,
     remote_file_id |-> None,
     remote_file_url |-> None,
     remote_file_view_url |-> None,
     error |-> None,
     created_at |-> created_at,
     updated_at |-> updated_at]

\* self._jobs[job_id] = job
create_job(js, job) ==
    [k \in DOMAIN js \cup {job.id} |-> IF k = job.id THEN job ELSE js[k]]

\* DownloadManager.get_job: a copy of the job, or None.
get_job(js, job_id) == IF job_id \in DOMAIN js THEN js[job_id] ELSE None

\* DownloadManager._update_job on a known job (an unknown id raises KeyError).
update_job(js, job_id, updates) ==
    [js EXCEPT ![job_id] = Update(Update(js[job_id], updates), [updated_at |-> now])]

\* DownloadManager._update_job, lines 479-481: KeyError(job_id) for an id that
\* is not in the store, raised before anything is written.
update_job_raises(js, job_id) == job_id \notin DOMAIN js

\* DownloadManager.mark_delivering
mark_delivering(js, job_id) ==
    IF job_id \notin DOMAIN js THEN js
    ELSE [js EXCEPT ![job_id].status = "delivering", ![job_id].updated_at = now]

\* mark_downloaded with updated_at left as it was.
mark_downloaded_keeps_updated_at(js, job_id) ==
    IF job_id \notin DOMAIN js THEN js
    ELSE [js EXCEPT ![job_id].status = "downloaded"]

\* DownloadManager.mark_downloaded
mark_downloaded(js, job_id) ==
    IF job_id \notin DOMAIN js THEN js
    ELSE [js EXCEPT ![job_id].status = "downloaded", ![job_id].updated_at = now]

\* mark_file_consumed dropping the job from the store once it is consumed.
mark_file_consumed_removes_job(js, job_id) ==
    [k \in DOMAIN js \ {job_id} |-> js[k]]

\* mark_file_consumed with the reset of output_file forgotten.
mark_file_consumed_keeps_output_file(js, job_id) ==
    IF job_id \notin DOMAIN js THEN js
    ELSE [js EXCEPT ![job_id] =
            Update(@, [status |-> "delivered",
                       download_url |-> None,
                       remote_file_id |-> None,
                       remote_file_url |-> None,
                       remote_file_view_url |-> None,
                       updated_at |-> now])]

\* mark_file_consumed with the reset of download_url forgotten.
mark_file_consumed_keeps_download_url(js, job_id) ==
    IF job_id \notin DOMAIN js THEN js
    ELSE [js EXCEPT ![job_id] =
            Update(@, [status |-> "delivered",
                       output_file |-> None,
                       remote_file_id |-> None,
                       remote_file_url |-> None,
                       remote_file_view_url |-> None,
                       updated_at |-> now])]

\* DownloadManager.mark_file_consumed
mark_file_consumed(js, job_id) ==
    IF job_id \notin DOMAIN js THEN js
    ELSE [js EXCEPT ![job_id] =
            Update(@, [status |-> "delivered",
                       output_file |-> None,
                       download_url |-> None,
                       remote_file_id |-> None,
                       remote_file_url |-> None,
                       remote_file_view_url |-> None,
                       updated_at |-> now])]

\* The updates after the remote delete with only remote_file_id reset.
RemoteCleared_id_only == [remote_file_id |-> None]

\* The updates delete_remote_file applies after the remote delete.
RemoteCleared ==
    [remote_file_id |-> None, remote_file_url |-> None, remote_file_view_url |-> None]

\* get_google_drive_client(), lines 277-279: the cache is read without a lock;
\* the caller goes on at position found with the cached client, or at position
\* load, where the credentials are loaded.
GetGoogleDriveClient(cached, found, load) == IF cached THEN found ELSE load

\* get_google_drive_client(), lines 281-305: loading the credentials raises,
\* finds none (the function returns None), or yields credentials.
LoadCredentials == {"raise", "none", "credentials"}

\* ------------------------------------------------------------------ process_job
\* _resolve_final_file, lines 412-430: the path when the file exists now,
\* otherwise FileNotFoundError (no other file of a like name is around).
resolve_final_file(file_path) ==
    IF file_path \in fs THEN [raised |-> FALSE, value |-> file_path]
    ELSE [raised |-> TRUE, value |-> Str("downloaded file not found")]

\* The updates after a successful extraction, with the resolved directory of
\* the file written into output_path.
CompletedUpdates_into_output_path(job_id, output_file, remote_details, remote_error) ==
    [status |-> "completed",
     output_path |-> "/srv/app",
     output_file |-> output_file,
     download_url |-> DownloadUrlOf(job_id)]
    @@ (IF remote_details # None
        THEN [remote_file_id |-> remote_details.file_id,
              remote_file_url |-> remote_details.download_url,
              remote_file_view_url |-> remote_details.view_url]
        ELSE <<>>)
    @@ (IF Truthy(remote_error)
        THEN [error |-> <<"Google Drive upload failed: ", remote_error[1]>>]
        ELSE <<>>)

\* The updates process_job applies after a successful extraction.
CompletedUpdates(job_id, output_file, remote_details, remote_error) ==
    [status |-> "completed",
     output_file |-> output_file,
     download_url |-> DownloadUrlOf(job_id)]
    @@ (IF remote_details # None
        THEN [remote_file_id |-> remote_details.file_id,
              remote_file_url |-> remote_details.download_url,
              remote_file_view_url |-> remote_details.view_url]
        ELSE <<>>)
    @@ (IF Truthy(remote_error)
        THEN [error |-> <<"Google Drive upload failed: ", remote_error[1]>>]
        ELSE <<>>)

\* The except clause with the status left as it is.
FailedUpdates_keeps_status(exc) ==
    [error |-> exc,
     download_url |-> None,
     remote_file_id |-> None,
     remote_file_url |-> None,
     remote_file_view_url |-> None]

\* The except clause with the error text forgotten.
FailedUpdates_without_error(exc) ==
    [status |-> "failed",
     download_url |-> None,
     remote_file_id |-> None,
     remote_file_url |-> None,
     remote_file_view_url |-> None]

\* The updates process_job applies when the try block raised exc.
FailedUpdates(exc) ==
    [status |-> "failed",
     error |-> exc,
     download_url |-> None,
     remote_file_id |-> None,
     remote_file_url |-> None,
     remote_file_view_url |-> None]

\* job: the snapshot get_job returned at line 540.
NoTask ==
    [pc |-> "none", job |-> None, output_file |-> None, remote_details |-> None,
     remote_error |-> None, exc |-> None]

\* ------------------------------------------------------------------ handlers
Idle ==
    [pc |-> "idle", kind |-> "none", job_id |-> 0,
     as_base64 |-> FALSE, auto_delete |-> FALSE,
     status |-> "", output_file |-> None, remote_id |-> None,
     consume |-> FALSE, resp |-> None]

\* ------------------------------------------------------------------ POST responses
BadFormat == <<400, "invalid format">>
BadFfmpeg == <<400, "ffmpeg location not found">>
Enqueued(job_id) == <<200, job_id, "queued">>

NoPost == [format |-> "", ffmpeg_location |-> None, resp |-> None]

\* ------------------------------------------------------------------ download_video
\* No direct call of download_video is being made.
NoCall ==
    [pc |-> "none", format_choice |-> "", ffmpeg_location |-> None,
     bundled |-> FALSE, ydl_format |-> "", ydl_ffmpeg |-> None, result |-> None]

\* ------------------------------------------------------------------ returned dicts
\* job.copy() returning the dict it was called on: the caller is handed the
\* dict that the store holds.
dict_copy_returns_stored(job_id, job) ==
    [job_id |-> job_id, stored |-> TRUE, items |-> job]

\* job.copy() on the dict stored under job_id: a new dict with the same items.
\* A dict in a caller's hands is the store's own (stored) or one of its own.
dict_copy(job_id, job) ==
    [job_id |-> job_id, stored |-> FALSE, items |-> job]

\* Nobody uses the manager directly.
NoCaller == [active |-> FALSE, held |-> <<>>]

\* ------------------------------------------------------------------ calls in a row
\* No run of manual cleanups is in progress: some other step came last.
NoSeq ==
    [phase |-> "none", h |-> 0, job_id |-> 0, calls |-> 0, no_file |-> FALSE,
     jobs |-> <<>>, fs |-> {}]

\* manual_cleanup begins on handler h. After a cleanup of the same job that ran
\* alone and with nothing since, this is the second call in a row, and the
\* state the first call left is recorded; otherwise it is a first call.
\* calls: the calls of the run that have returned (2 stands for two or more).
\* no_file: the job has no artifact file when the call begins.
SeqAfterBegin(h, job_id) ==
    IF job_id \notin DOMAIN jobs THEN NoSeq
    ELSE [phase |-> IF cleanup_seq.phase = "once" /\ cleanup_seq.job_id = job_id
                    THEN "again" ELSE "first",
          h |-> h,
          job_id |-> job_id,
          calls |-> IF cleanup_seq.phase = "once" /\ cleanup_seq.job_id = job_id
                    THEN cleanup_seq.calls ELSE 0,
          no_file |-> (jobs[job_id].output_file = None
                        \/ jobs[job_id].output_file \notin fs),
          jobs |-> IF cleanup_seq.phase = "once" /\ cleanup_seq.job_id = job_id
                   THEN jobs ELSE <<>>,
          fs |-> IF cleanup_seq.phase = "once" /\ cleanup_seq.job_id = job_id
                 THEN fs ELSE {}]

\* Handler h takes a step of its request: the call of a run goes on, or
\* returns; a step of any other request ends the run.
SeqAfterStep(h) ==
    IF cleanup_seq.phase \in {"first", "again"} /\ cleanup_seq.h = h
    THEN IF handlers'[h].pc = "done"
         THEN [NoSeq EXCEPT !.phase = "once", !.job_id = cleanup_seq.job_id,
                            !.calls = IF cleanup_seq.calls = 0 THEN 1 ELSE 2]
         ELSE cleanup_seq
    ELSE NoSeq

\* ------------------------------------------------------------------ the lock
\* The threads: a process_job task, a request handler, POST /download, and a
\* direct caller of the manager.
Task(j) == <<"process_job", j>>
Handler(h) == <<"handler", h>>
Poster == <<"enqueue_download">>
Caller == <<"caller">>

\* The positions from which a task's, or a handler's, next step is a call of
\* the manager: get_job, _update_job, mark_delivering, mark_downloaded,
\* mark_file_consumed. Each of them is one `with self._lock:` block.
TaskStorePcs == {"queued", "start", "complete", "fail"}
HandlerStorePcs == {"mark", "mark_dl", "drf_get", "drf_update", "consume"}

\* Thread t can run the body of its `with self._lock:` block: it has entered
\* the block, or the lock is free and t enters, runs and leaves the block
\* within the step. The step that runs the body leaves the block, which
\* releases the lock.
CanLock(t) == lock \in {None, t}

\* The thread of a request is inside the block of the request's first call of
\* the manager, create_job (line 464) or get_job, list_jobs (469, 474): the
\* request has been received and is not counted in requests yet.
EnteredFirstCall ==
    \/ lock = Poster
    \/ \E h \in HandlerIds : lock = Handler(h) /\ handlers[h].pc \in {"idle", "done"}

\* ------------------------------------------------------------------ initial state
\* A fresh process: the manager holds no job and no request has been received.
ServerInit ==
    /\ jobs = <<>>
    /\ fs = {}
    /\ drive_client = FALSE
    /\ drive_uploaded = {}
    /\ drive_deleted = {}
    /\ drive_failed = {}
    /\ worker = [j \in JobIds |-> NoTask]
    /\ handlers = [h \in HandlerIds |-> Idle]
    /\ requests = 0
    /\ lock = None
    /\ delivered_once = {}
    /\ auto_returned = {}
    /\ cleanup_seq = NoSeq
    /\ post = NoPost
    /\ now = 0

\* The API server starts; download_video is not called directly.
Init ==
    /\ ServerInit
    /\ cli = NoCall
    /\ caller = NoCaller

\* ------------------------------------------------------------------ POST /download
Urls == {"https://www.bilibili.com/video/BV1"}
Formats == {"auto", "bv*+ba", ""}
FfmpegLocations == {None, Str(FfmpegFile), Str("nowhere")}

\* payload.output_path: left out (the default "."), null, or spelled "./".
PostedPaths == {None, Str("."), Str("./")}

\* The readings of time.time().
Clock == 0..MaxClock

\* enqueue_download: 400 for a format that is not in valid_formats or an
\* ffmpeg_location that does not resolve; otherwise create_job under a fresh
\* uuid, then background_tasks.add_task(manager.process_job, job["id"]).
\* create_job reads the clock twice (lines 461, 462) and then takes the lock
\* (464): the step is the one that stores the job, and created_at, updated_at
\* are the two readings, taken in this order at any time up to now. A rejected
\* request never reaches create_job; while the thread of another request is
\* inside the block of its first call, the rejected one leaves room for it in
\* the bound on the requests.
EnqueueDownload(url, output_path, format_choice, ffmpeg_location, created_at, updated_at) ==
    /\ requests < MaxRequests
    /\ created_at <= updated_at
    /\ updated_at <= now
    /\ requests' = requests + 1
    /\ LET request == [format |-> format_choice, ffmpeg_location |-> ffmpeg_location]
           resolved == IF Truthy(ffmpeg_location)
                       THEN resolve_custom_ffmpeg(ffmpeg_location)
                       ELSE [raised |-> FALSE, value |-> None]
       IN IF format_choice \notin valid_formats
          THEN /\ EnteredFirstCall => requests + 1 < MaxRequests
               /\ post' = request @@ [resp |-> BadFormat]
               /\ UNCHANGED <<jobs, worker, lock>>
          ELSE IF resolved.raised
          THEN /\ EnteredFirstCall => requests + 1 < MaxRequests
               /\ post' = request @@ [resp |-> BadFfmpeg]
               /\ UNCHANGED <<jobs, worker, lock>>
          ELSE /\ Cardinality(DOMAIN jobs) < MaxJobs
               /\ CanLock(Poster)
               /\ lock' = None
               /\ LET job_id == Cardinality(DOMAIN jobs) + 1
                      job == NewJob(job_id, url, output_path, format_choice,
                                    PyOr(resolved.value, ffmpeg_location),
                                    created_at, updated_at)
                  IN /\ jobs' = create_job(jobs, job)
                     /\ worker' = [worker EXCEPT ![job_id].pc = "queued"]
                     /\ post' = request @@ [resp |-> Enqueued(job_id)]
    /\ UNCHANGED <<fs, driveVars, handlers, histVars>>
    /\ cleanup_seq' = NoSeq
    /\ UNCHANGED <<cli, caller, now>>

\* process_job, lines 540-542: get_job; the task ends when there is no job.
ProcessJob_GetJob(j) ==
    /\ worker[j].pc = "queued"
    /\ CanLock(Task(j))
    /\ lock' = None
    /\ LET job == get_job(jobs, j)
       IN worker' = [worker EXCEPT ![j].pc = IF job = None THEN "done" ELSE "start",
                                   ![j].job = job]
    /\ UNCHANGED <<jobs, fs, driveVars, handlers, requests, post, histVars>>
    /\ cleanup_seq' = NoSeq
    /\ UNCHANGED <<cli, caller, now>>

\* process_job with the lock of its first _update_job kept while download_video
\* runs.
ProcessJob_Start_holding_lock(j) ==
    /\ worker[j].pc = "start"
    /\ CanLock(Task(j))
    /\ lock' = Task(j)
    /\ ~update_job_raises(jobs, j)
    /\ jobs' = update_job(jobs, j, [status |-> "downloading", error |-> None])
    /\ worker' = [worker EXCEPT ![j].pc = "extract"]
    /\ UNCHANGED <<fs, driveVars, handlers, requests, post, histVars>>
    /\ cleanup_seq' = NoSeq
    /\ UNCHANGED <<cli, caller, now>>

\* process_job, line 544: _update_job(status="downloading", error=None), in a
\* lock section of its own.
ProcessJob_Start(j) ==
    /\ worker[j].pc = "start"
    /\ CanLock(Task(j))
    /\ lock' = None
    /\ ~update_job_raises(jobs, j)
    /\ jobs' = update_job(jobs, j, [status |-> "downloading", error |-> None])
    /\ worker' = [worker EXCEPT ![j].pc = "extract"]
    /\ UNCHANGED <<fs, driveVars, handlers, requests, post, histVars>>
    /\ cleanup_seq' = NoSeq
    /\ UNCHANGED <<cli, caller, now>>

\* download_video(job["url"], job["output_path"], ...), lines 355-356: the
\* engine returns after writing the file; the arguments come from the snapshot
\* of line 540. download_video has not returned yet.
DownloadVideo_Ok(j) ==
    /\ worker[j].pc = "extract"
    /\ fs' = fs \cup {OutputFileOf(worker[j].job.url, worker[j].job.output_path)}
    /\ worker' = [worker EXCEPT ![j].pc = "resolve"]
    /\ UNCHANGED <<jobs, driveVars, handlers, requests, post, histVars>>
    /\ cleanup_seq' = NoSeq
    /\ UNCHANGED <<cli, caller, now>>
    /\ UNCHANGED lock

\* download_video, line 363: _resolve_final_file looks for the file the engine
\* reported; download_video returns its path, or raises FileNotFoundError,
\* which the except clause of process_job catches.
ResolveFinalFile(j) ==
    /\ worker[j].pc = "resolve"
    /\ LET resolved == resolve_final_file(
                          OutputFileOf(worker[j].job.url, worker[j].job.output_path))
       IN worker' = IF resolved.raised
                    THEN [worker EXCEPT ![j].pc = "fail", ![j].exc = resolved.value]
                    ELSE [worker EXCEPT ![j].pc = "client",
                                        ![j].output_file = resolved.value]
    /\ UNCHANGED <<jobs, fs, driveVars, handlers, requests, post, histVars>>
    /\ cleanup_seq' = NoSeq
    /\ UNCHANGED <<cli, caller, now>>
    /\ UNCHANGED lock

\* download_video raises; the except clause of process_job catches it.
DownloadVideo_Raise(j, m) ==
    /\ worker[j].pc = "extract"
    /\ worker' = [worker EXCEPT ![j].pc = "fail", ![j].exc = Str(m)]
    /\ UNCHANGED <<jobs, fs, driveVars, handlers, requests, post, histVars>>
    /\ cleanup_seq' = NoSeq
    /\ UNCHANGED <<cli, caller, now>>
    /\ UNCHANGED lock

\* process_job, line 557, enters get_google_drive_client(): the read of the
\* cache (lines 277-279), which returns the cached client.
ProcessJob_GetClient(j) ==
    /\ worker[j].pc = "client"
    /\ worker' = [worker EXCEPT
                    ![j].pc = GetGoogleDriveClient(drive_client, "upload", "credentials")]
    /\ UNCHANGED <<jobs, fs, driveVars, handlers, requests, post, histVars>>
    /\ cleanup_seq' = NoSeq
    /\ UNCHANGED <<cli, caller, now>>
    /\ UNCHANGED lock

\* get_google_drive_client(), lines 281-305, called by process_job with no
\* client in the cache at line 278: the credentials are loaded, whatever
\* another thread has cached since. An exception is kept as remote_error
\* (lines 558-559); without credentials the function returns None and
\* nothing is uploaded.
ProcessJob_LoadCredentials(j, outcome, m) ==
    /\ worker[j].pc = "credentials"
    /\ outcome \in LoadCredentials
    /\ worker' = [worker EXCEPT
                    ![j].pc = IF outcome = "credentials" THEN "build" ELSE "complete",
                    ![j].remote_error = IF outcome = "raise" THEN Str(m) ELSE None]
    /\ UNCHANGED <<jobs, fs, driveVars, handlers, requests, post, histVars>>
    /\ cleanup_seq' = NoSeq
    /\ UNCHANGED <<cli, caller, now>>
    /\ UNCHANGED lock

\* get_google_drive_client(), lines 307-313, called by process_job: under
\* _GOOGLE_DRIVE_CLIENT_LOCK a client is built and cached unless one is
\* cached by now, and the cached client is returned.
ProcessJob_BuildClient(j) ==
    /\ worker[j].pc = "build"
    /\ drive_client' = TRUE
    /\ worker' = [worker EXCEPT ![j].pc = "upload"]
    /\ UNCHANGED <<jobs, fs, drive_uploaded, drive_deleted, drive_failed, handlers, requests, post,
                   histVars>>
    /\ cleanup_seq' = NoSeq
    /\ UNCHANGED <<cli, caller, now>>
    /\ UNCHANGED lock

\* drive_client.upload_file returns the remote details.
UploadFile_Ok(j, has_view_link) ==
    /\ worker[j].pc = "upload"
    /\ worker' = [worker EXCEPT ![j].pc = "complete",
                                ![j].remote_details = UploadFile(j, has_view_link)]
    /\ drive_uploaded' = drive_uploaded \cup {UploadFile(j, has_view_link).file_id}
    /\ UNCHANGED <<jobs, fs, drive_client, drive_deleted, drive_failed, handlers, requests, post,
                   histVars>>
    /\ cleanup_seq' = NoSeq
    /\ UNCHANGED <<cli, caller, now>>
    /\ UNCHANGED lock

\* drive_client.upload_file raises; the exception is kept as remote_error.
UploadFile_Raise(j, m) ==
    /\ worker[j].pc = "upload"
    /\ worker' = [worker EXCEPT ![j].pc = "complete", ![j].remote_error = Str(m)]
    /\ UNCHANGED <<jobs, fs, driveVars, handlers, requests, post, histVars>>
    /\ cleanup_seq' = NoSeq
    /\ UNCHANGED <<cli, caller, now>>
    /\ UNCHANGED lock

\* process_job, lines 569-582: the final _update_job of a successful extraction.
ProcessJob_Complete(j) ==
    /\ worker[j].pc = "complete"
    /\ CanLock(Task(j))
    /\ lock' = None
    /\ jobs' = update_job(jobs, j,
                 CompletedUpdates(j, worker[j].output_file,
                                  worker[j].remote_details, worker[j].remote_error))
    /\ worker' = [worker EXCEPT ![j] = [NoTask EXCEPT !.pc = "done"]]
    /\ UNCHANGED <<fs, driveVars, handlers, requests, post, histVars>>
    /\ cleanup_seq' = NoSeq
    /\ UNCHANGED <<cli, caller, now>>

\* process_job, lines 583-592: the except clause.
ProcessJob_Fail(j) ==
    /\ worker[j].pc = "fail"
    /\ CanLock(Task(j))
    /\ lock' = None
    /\ jobs' = update_job(jobs, j, FailedUpdates(worker[j].exc))
    /\ worker' = [worker EXCEPT ![j].pc = "done", ![j].job = None]
    /\ UNCHANGED <<fs, driveVars, handlers, requests, post, histVars>>
    /\ cleanup_seq' = NoSeq
    /\ UNCHANGED <<cli, caller, now>>

WorkerStep(j) ==
    \/ ProcessJob_GetJob(j)
    \/ ProcessJob_Start(j)
    \/ DownloadVideo_Ok(j)
    \/ ResolveFinalFile(j)
    \/ \E m \in Messages : DownloadVideo_Raise(j, m)
    \/ ProcessJob_GetClient(j)
    \/ \E outcome \in LoadCredentials, m \in Messages :
          ProcessJob_LoadCredentials(j, outcome, m)
    \/ ProcessJob_BuildClient(j)
    \/ \E has_view_link \in BOOLEAN : UploadFile_Ok(j, has_view_link)
    \/ \E m \in Messages : UploadFile_Raise(j, m)
    \/ ProcessJob_Complete(j)
    \/ ProcessJob_Fail(j)

\* ------------------------------------------------------------------ responses
NotFoundJob == <<404, "job not found">>
Gone == <<410, "file already downloaded and deleted">>
Conflict == <<409, "file is being delivered to another request">>
NotReady(status) == <<409, "job not finished", status>>
NoOutputFile == <<404, "no output_file recorded">>
FileMissing == <<404, "file deleted or moved">>
Served == <<200, "file">>
ReadFailed == <<500, "reading the file raised">>
FileDeleted == <<200, "file deleted">>
AlreadyRemoved == <<200, "file not found or already removed">>
JobSnapshot == <<200, "job snapshot">>
JobList == <<200, "jobs">>

\* The checks with an unknown id answered as a job that is not finished.
DownloadFileChecks_unknown_not_ready(job, auto_delete) ==
    IF job = None THEN NotReady("unknown")
    ELSE LET allowed_statuses ==
                 {"completed"} \cup (IF ~auto_delete THEN {"downloaded"} ELSE {})
         IN IF job.status = "delivered" THEN Gone
            ELSE IF job.status = "delivering" THEN Conflict
            ELSE IF job.status \notin allowed_statuses THEN NotReady(job.status)
            ELSE IF job.output_file = None THEN NoOutputFile
            ELSE None

\* download_file, lines 878-896: the checks on the snapshot get_job returned.
\* The response that rejects the request, or None when the checks pass.
DownloadFileChecks(job, auto_delete) ==
    IF job = None THEN NotFoundJob
    ELSE LET allowed_statuses ==
                 {"completed"} \cup (IF ~auto_delete THEN {"downloaded"} ELSE {})
         IN IF job.status = "delivered" THEN Gone
            ELSE IF job.status = "delivering" THEN Conflict
            ELSE IF job.status \notin allowed_statuses THEN NotReady(job.status)
            ELSE IF job.output_file = None THEN NoOutputFile
            ELSE None

\* A request is taken by the lowest handler that is not serving one, or by the
\* handler whose thread is inside the block of the request's first call. A
\* handler that has answered keeps its last request and response until its
\* next request.
Free(h) == handlers[h].pc \in {"idle", "done"}

Accepts(h) ==
    /\ requests < MaxRequests
    /\ Free(h)
    /\ lock = Handler(h) \/ \A k \in HandlerIds : k < h => ~Free(k)

\* Thread t has reached a `with self._lock:` block: a task or a handler at a
\* call of the manager; the thread of a POST that has passed the checks of
\* enqueue_download, at create_job (line 844, the block at 464); the thread of
\* a GET or DELETE request, at the call its handler begins with, get_job
\* (lines 863, 878, 933, the block at 469) or list_jobs (870, the block at
\* 474). A request may arrive in any state in which the bounds leave room for
\* it, and it is served by the handler that accepts it.
AtLock(t) ==
    \/ \E j \in JobIds : t = Task(j) /\ worker[j].pc \in TaskStorePcs
    \/ \E h \in HandlerIds : t = Handler(h) /\ handlers[h].pc \in HandlerStorePcs
    \/ \E h \in HandlerIds : t = Handler(h) /\ Accepts(h)
    \/ t = Poster /\ requests < MaxRequests /\ Cardinality(DOMAIN jobs) < MaxJobs

\* A request whose file is missing marks the job consumed before it is
\* answered.
Finish_consumes_missing(h, resp) ==
    IF resp = <<404, "file deleted or moved">>
    THEN [handlers[h] EXCEPT !.pc = "consume", !.resp = resp]
    ELSE [Idle EXCEPT !.pc = "done", !.kind = handlers[h].kind,
                      !.job_id = handlers[h].job_id,
                      !.auto_delete = handlers[h].auto_delete,
                      !.status = handlers[h].status, !.resp = resp]

\* The handler's record once its request is answered with resp: the request
\* (for GET file with the status its get_job observed) and the response.
Finish(h, resp) ==
    [Idle EXCEPT !.pc = "done", !.kind = handlers[h].kind,
                 !.job_id = handlers[h].job_id,
                 !.auto_delete = handlers[h].auto_delete,
                 !.status = handlers[h].status, !.resp = resp]

\* ------------------------------------------------------------------ GET /download/{job_id}/file
\* download_file, lines 878-896: get_job and the checks on its snapshot.
DownloadFile_Begin(h, job_id, as_base64, auto_delete) ==
    /\ Accepts(h)
    /\ CanLock(Handler(h))
    /\ lock' = None
    /\ requests' = requests + 1
    /\ LET job == get_job(jobs, job_id)
           rejected == DownloadFileChecks(job, auto_delete)
           req == [Idle EXCEPT !.kind = "download", !.job_id = job_id,
                               !.auto_delete = auto_delete,
                               !.status = IF job = None THEN "unknown" ELSE job.status]
       IN handlers' = [handlers EXCEPT ![h] =
             IF rejected # None
             THEN [req EXCEPT !.pc = "done", !.resp = rejected]
             ELSE [req EXCEPT !.pc = "exists", !.as_base64 = as_base64,
                              !.output_file = job.output_file]]
    /\ UNCHANGED <<jobs, fs, driveVars, worker, post, histVars>>
    /\ cleanup_seq' = NoSeq
    /\ UNCHANGED <<cli, caller, now>>

\* download_file, lines 897-899: file_path.exists().
DownloadFile_Exists(h) ==
    /\ handlers[h].kind = "download"
    /\ handlers[h].pc = "exists"
    /\ handlers' = [handlers EXCEPT ![h] =
          IF handlers[h].output_file \in fs
          THEN [@ EXCEPT !.pc = "mark"]
          ELSE Finish(h, FileMissing)]
    /\ UNCHANGED <<jobs, fs, driveVars, worker, requests, post, histVars>>
    /\ cleanup_seq' = SeqAfterStep(h)
    /\ UNCHANGED <<cli, caller, now>>
    /\ UNCHANGED lock

\* download_file, line 901: manager.mark_delivering(job_id).
DownloadFile_MarkDelivering(h) ==
    /\ handlers[h].pc = "mark"
    /\ CanLock(Handler(h))
    /\ lock' = None
    /\ jobs' = mark_delivering(jobs, handlers[h].job_id)
    /\ handlers' = [handlers EXCEPT ![h].pc = "read"]
    /\ UNCHANGED <<fs, driveVars, worker, requests, post, histVars>>
    /\ cleanup_seq' = SeqAfterStep(h)
    /\ UNCHANGED <<cli, caller, now>>

\* download_file, lines 903-929: the file is read: stat and read_bytes for
\* as_base64, FileResponse's stat and send otherwise. A file that is gone
\* raises, and neither the post-delivery action nor the background task runs.
\* FileResponse has answered the client before its background task starts; the
\* as_base64 body is returned after the post-delivery action.
DownloadFile_Read(h) ==
    /\ handlers[h].pc = "read"
    /\ IF handlers[h].output_file \in fs
       THEN /\ handlers' = [handlers EXCEPT ![h] =
                  [@ EXCEPT !.pc = IF handlers[h].auto_delete THEN "unlink" ELSE "mark_dl",
                            !.consume = handlers[h].auto_delete,
                            !.as_base64 = FALSE,
                            !.resp = Served]]
            /\ auto_returned' =
                  IF handlers[h].auto_delete /\ ~handlers[h].as_base64
                  THEN auto_returned \cup {handlers[h].job_id}
                  ELSE auto_returned
       ELSE /\ handlers' = [handlers EXCEPT ![h] = Finish(h, ReadFailed)]
            /\ auto_returned' = auto_returned
    /\ UNCHANGED <<jobs, fs, driveVars, worker, requests, post, delivered_once>>
    /\ cleanup_seq' = SeqAfterStep(h)
    /\ UNCHANGED <<cli, caller, now>>
    /\ UNCHANGED lock

\* mark_downloaded, called inline (as_base64) or as the background task.
DownloadFile_MarkDownloaded(h) ==
    /\ handlers[h].pc = "mark_dl"
    /\ CanLock(Handler(h))
    /\ lock' = None
    /\ jobs' = mark_downloaded(jobs, handlers[h].job_id)
    /\ handlers' = [handlers EXCEPT ![h] = Finish(h, handlers[h].resp)]
    /\ UNCHANGED <<fs, driveVars, worker, requests, post, histVars>>
    /\ cleanup_seq' = SeqAfterStep(h)
    /\ UNCHANGED <<cli, caller, now>>

\* ------------------------------------------------------------------ disposal
\* delete_remote_file's return ending the caller too, mark_file_consumed skipped.
AfterDeleteRemoteFile_ends_caller(h) == Finish(h, handlers[h].resp)

\* Where a handler goes when delete_remote_file returns.
AfterDeleteRemoteFile(h) ==
    IF handlers[h].consume
    THEN [handlers[h] EXCEPT !.pc = "consume", !.remote_id = None]
    ELSE Finish(h, handlers[h].resp)

\* _cleanup_after_delivery, lines 743-749: path.unlink(), FileNotFoundError and
\* OSError swallowed. An unlink that fails with OSError leaves the file.
CleanupAfterDelivery_Unlink(h, removed) ==
    /\ handlers[h].pc = "unlink"
    /\ fs' = IF removed THEN fs \ {handlers[h].output_file} ELSE fs
    /\ handlers' = [handlers EXCEPT ![h].pc = "drf_get"]
    /\ UNCHANGED <<jobs, driveVars, worker, requests, post, histVars>>
    /\ cleanup_seq' = SeqAfterStep(h)
    /\ UNCHANGED <<cli, caller, now>>
    /\ UNCHANGED lock

\* delete_remote_file, lines 487-492: get_job and the remote_file_id test.
DeleteRemoteFile_GetJob(h) ==
    /\ handlers[h].pc = "drf_get"
    /\ CanLock(Handler(h))
    /\ lock' = None
    /\ LET job == get_job(jobs, handlers[h].job_id)
       IN handlers' = [handlers EXCEPT ![h] =
             IF job = None \/ job.remote_file_id = None
             THEN AfterDeleteRemoteFile(h)
             ELSE [@ EXCEPT !.pc = "drf_client", !.remote_id = job.remote_file_id]]
    /\ UNCHANGED <<jobs, fs, driveVars, worker, requests, post, histVars>>
    /\ cleanup_seq' = SeqAfterStep(h)
    /\ UNCHANGED <<cli, caller, now>>

\* delete_remote_file, lines 493-498: get_google_drive_client(), one step for
\* each of its three parts. The read of the cache (lines 277-279) returns the
\* cached client; without one the credentials are loaded (lines 281-305),
\* where an exception or no credentials end delete_remote_file, and then the
\* client is built and cached (lines 307-313). A job has a remote id only
\* after an upload, for which process_job was returned the cached client, so
\* delete_remote_file finds the client in the cache.
DeleteRemoteFile_GetClient(h, outcome) ==
    /\ handlers[h].pc \in {"drf_client", "drf_credentials", "drf_build"}
    /\ outcome \in LoadCredentials
    /\ drive_client' = (drive_client \/ handlers[h].pc = "drf_build")
    /\ handlers' = [handlers EXCEPT ![h] =
          CASE @.pc = "drf_client" ->
                  [@ EXCEPT !.pc = GetGoogleDriveClient(drive_client, "drf_delete",
                                                        "drf_credentials")]
            [] @.pc = "drf_credentials" ->
                  IF outcome = "credentials" THEN [@ EXCEPT !.pc = "drf_build"]
                  ELSE AfterDeleteRemoteFile(h)
            [] @.pc = "drf_build" -> [@ EXCEPT !.pc = "drf_delete"]]
    /\ UNCHANGED <<jobs, fs, drive_uploaded, drive_deleted, drive_failed, worker, requests,
                   post, histVars>>
    /\ cleanup_seq' = SeqAfterStep(h)
    /\ UNCHANGED <<cli, caller, now>>
    /\ UNCHANGED lock

\* delete_remote_file, lines 499-502: client.delete_file(remote_id), which
\* deletes the remote file or raises; the exception is swallowed.
DeleteRemoteFile_Delete(h, deleted) ==
    /\ handlers[h].pc = "drf_delete"
    /\ drive_deleted' = drive_deleted \cup {handlers[h].remote_id}
    /\ drive_failed' = IF deleted THEN drive_failed
                       ELSE drive_failed \cup {handlers[h].remote_id}
    /\ handlers' = [handlers EXCEPT ![h].pc = "drf_update"]
    /\ UNCHANGED <<jobs, fs, drive_client, drive_uploaded, worker, requests, post, histVars>>
    /\ cleanup_seq' = SeqAfterStep(h)
    /\ UNCHANGED <<cli, caller, now>>
    /\ UNCHANGED lock

\* delete_remote_file, lines 503-508: _update_job clearing the remote fields.
DeleteRemoteFile_Update(h) ==
    /\ handlers[h].pc = "drf_update"
    /\ CanLock(Handler(h))
    /\ lock' = None
    /\ jobs' = update_job(jobs, handlers[h].job_id, RemoteCleared)
    /\ handlers' = [handlers EXCEPT ![h] = AfterDeleteRemoteFile(h)]
    /\ UNCHANGED <<fs, driveVars, worker, requests, post, histVars>>
    /\ cleanup_seq' = SeqAfterStep(h)
    /\ UNCHANGED <<cli, caller, now>>

\* manager.mark_file_consumed(job_id), the last call of _cleanup_after_delivery
\* and of manual_cleanup.
MarkFileConsumed(h) ==
    /\ handlers[h].pc = "consume"
    /\ CanLock(Handler(h))
    /\ lock' = None
    /\ jobs' = mark_file_consumed(jobs, handlers[h].job_id)
    /\ handlers' = [handlers EXCEPT ![h] = Finish(h, handlers[h].resp)]
    /\ delivered_once' = delivered_once \cup {handlers[h].job_id}
    /\ auto_returned' =
          IF handlers[h].kind = "download"
          THEN auto_returned \cup {handlers[h].job_id}
          ELSE auto_returned
    /\ UNCHANGED <<fs, driveVars, worker, requests, post>>
    /\ cleanup_seq' = SeqAfterStep(h)
    /\ UNCHANGED <<cli, caller, now>>

\* ------------------------------------------------------------------ DELETE /cleanup/{job_id}
\* The status test of manual_cleanup with "completed" left out.
ConsumableStatuses_without_completed == {"delivering", "downloaded"}

\* manual_cleanup, line 943: the statuses it resets to delivered without a file.
ConsumableStatuses == {"completed", "delivering", "downloaded"}

\* manual_cleanup, lines 933-937: get_job; the rest works on this snapshot.
ManualCleanup_Begin(h, job_id) ==
    /\ Accepts(h)
    /\ CanLock(Handler(h))
    /\ lock' = None
    /\ requests' = requests + 1
    /\ LET job == get_job(jobs, job_id)
           req == [Idle EXCEPT !.kind = "cleanup", !.job_id = job_id]
       IN handlers' = [handlers EXCEPT ![h] =
             IF job = None
             THEN [req EXCEPT !.pc = "done", !.status = "unknown", !.resp = NotFoundJob]
             ELSE IF job.output_file # None
             THEN [req EXCEPT !.pc = "exists", !.status = job.status,
                              !.output_file = job.output_file]
             ELSE [req EXCEPT !.pc = "drf_get", !.status = job.status,
                              !.consume = job.status \in ConsumableStatuses,
                              !.resp = AlreadyRemoved]]
    /\ UNCHANGED <<jobs, fs, driveVars, worker, post, histVars>>
    /\ cleanup_seq' = SeqAfterBegin(h, job_id)
    /\ UNCHANGED <<cli, caller, now>>

\* manual_cleanup, lines 938-943: file_path.exists() chooses between
\* _cleanup_after_delivery and delete_remote_file with the status test.
ManualCleanup_Exists(h) ==
    /\ handlers[h].kind = "cleanup"
    /\ handlers[h].pc = "exists"
    /\ handlers' = [handlers EXCEPT ![h] =
          IF handlers[h].output_file \in fs
          THEN [@ EXCEPT !.pc = "unlink", !.consume = TRUE, !.resp = FileDeleted]
          ELSE [@ EXCEPT !.pc = "drf_get", !.output_file = None,
                         !.consume = handlers[h].status \in ConsumableStatuses,
                         !.resp = AlreadyRemoved]]
    /\ UNCHANGED <<jobs, fs, driveVars, worker, requests, post, histVars>>
    /\ cleanup_seq' = SeqAfterStep(h)
    /\ UNCHANGED <<cli, caller, now>>
    /\ UNCHANGED lock

\* ------------------------------------------------------------------ GET /status/{job_id}
\* get_status: get_job, then 404 or the formatted snapshot.
GetStatus(h, job_id) ==
    /\ Accepts(h)
    /\ CanLock(Handler(h))
    /\ lock' = None
    /\ requests' = requests + 1
    /\ LET job == get_job(jobs, job_id)
       IN handlers' = [handlers EXCEPT ![h] =
             [Idle EXCEPT !.pc = "done", !.kind = "status", !.job_id = job_id,
                          !.status = IF job = None THEN "unknown" ELSE job.status,
                          !.resp = IF job = None THEN NotFoundJob ELSE JobSnapshot]]
    /\ UNCHANGED <<jobs, fs, driveVars, worker, post, histVars>>
    /\ cleanup_seq' = NoSeq
    /\ UNCHANGED <<cli, caller, now>>

\* ------------------------------------------------------------------ GET /jobs
\* list_jobs: manager.list_jobs(), every copy formatted.
ListJobs(h) ==
    /\ Accepts(h)
    /\ CanLock(Handler(h))
    /\ lock' = None
    /\ requests' = requests + 1
    /\ handlers' = [handlers EXCEPT ![h] =
          [Idle EXCEPT !.pc = "done", !.kind = "jobs", !.resp = JobList]]
    /\ UNCHANGED <<jobs, fs, driveVars, worker, post, histVars>>
    /\ cleanup_seq' = NoSeq
    /\ UNCHANGED <<cli, caller, now>>

\* The steps of a request that a handler has taken.
HandlerRun(h) ==
    \/ DownloadFile_Exists(h)
    \/ DownloadFile_MarkDelivering(h)
    \/ DownloadFile_Read(h)
    \/ DownloadFile_MarkDownloaded(h)
    \/ \E removed \in BOOLEAN : CleanupAfterDelivery_Unlink(h, removed)
    \/ DeleteRemoteFile_GetJob(h)
    \/ \E outcome \in LoadCredentials : DeleteRemoteFile_GetClient(h, outcome)
    \/ \E deleted \in BOOLEAN : DeleteRemoteFile_Delete(h, deleted)
    \/ DeleteRemoteFile_Update(h)
    \/ MarkFileConsumed(h)
    \/ ManualCleanup_Exists(h)

\* A request arrives.
HandlerBegin(h) ==
    \/ \E job_id \in JobIds, as_base64 \in BOOLEAN, auto_delete \in BOOLEAN :
          DownloadFile_Begin(h, job_id, as_base64, auto_delete)
    \/ \E job_id \in JobIds : ManualCleanup_Begin(h, job_id)
    \/ \E job_id \in JobIds : GetStatus(h, job_id)
    \/ ListJobs(h)

\* ------------------------------------------------------------------ specification
Next ==
    \/ \E url \in Urls, output_path \in PostedPaths, format_choice \in Formats,
          ffmpeg_location \in FfmpegLocations, created_at \in Clock, updated_at \in Clock :
          EnqueueDownload(url, output_path, format_choice, ffmpeg_location,
                          created_at, updated_at)
    \/ \E j \in JobIds : WorkerStep(j)
    \/ \E h \in HandlerIds : HandlerBegin(h)
    \/ \E h \in HandlerIds : HandlerRun(h)

Spec == Init /\ [][Next]_vars

\* Every dispatched task and every request a handler has taken keeps running;
\* requests arrive or not as clients please.
FairSpec ==
    /\ Spec
    /\ \A j \in JobIds : WF_vars(WorkerStep(j))
    /\ \A h \in HandlerIds : WF_vars(HandlerRun(h))

\* ------------------------------------------------------------------ the clock
\* Time passes: the next time.time() returns a later reading.
Tick ==
    /\ now < MaxClock
    /\ now' = now + 1
    /\ UNCHANGED <<jobs, fs, driveVars, worker, handlers, requests, post, histVars,
                   cleanup_seq, cli, caller>>
    /\ UNCHANGED lock

\* The server with the clock running. Under Spec every reading of the clock is
\* the same: the timestamps are written and never read by the program.
ClockNext == Next \/ Tick

ClockSpec == Init /\ [][ClockNext]_vars

\* ------------------------------------------------------------------ the lock, held
\* The threads that call the manager from inside the server.
Threads == {Task(j) : j \in JobIds} \cup {Handler(h) : h \in HandlerIds} \cup {Poster}

\* `with self._lock:`, lines 464, 469, 474, 478, 511, 519, 527: thread t, at
\* one of these blocks, takes the free lock. The step that runs the body of
\* the block releases it; until then every step of another thread that needs
\* the lock waits.
AcquireLock(t) ==
    /\ lock = None
    /\ AtLock(t)
    /\ lock' = t
    /\ UNCHANGED <<jobs, fs, driveVars, worker, handlers, requests, post, histVars,
                   cleanup_seq, cli, caller, now>>

\* The server with the acquisition of the lock as a step of its own. Under
\* Spec a block is entered, run and left within one step.
LockNext == Next \/ \E t \in Threads : AcquireLock(t)

LockSpec == Init /\ [][LockNext]_vars

\* ------------------------------------------------------------------ download_video, called directly
\* format_choice arguments: the preset keys, raw selectors, the empty string.
FormatChoices == DOMAIN FORMAT_PRESETS \cup {"bv*+ba", "best", ""}

\* ffmpeg_location arguments.
FfmpegChoices == {None, Str(""), Str(FfmpegFile), Str(FfmpegDir), Str("nowhere")}

\* download_video(url, output_path, format_choice, ffmpeg_location) is called
\* on a fresh process; bundled: DEFAULT_FFMPEG_DIR exists.
DownloadVideoInit ==
    /\ ServerInit
    /\ cli \in {[NoCall EXCEPT !.pc = "call", !.format_choice = f,
                                !.ffmpeg_location = l, !.bundled = b] :
                    f \in FormatChoices, l \in FfmpegChoices, b \in BOOLEAN}
    /\ caller = NoCaller

\* download_video, lines 344-350: ydl_opts with the resolved format.
DownloadVideo_ResolveFormat ==
    /\ cli.pc = "call"
    /\ cli' = [cli EXCEPT !.pc = "ffmpeg",
                          !.ydl_format = resolve_format_choice(cli.format_choice)]
    /\ UNCHANGED <<jobs, fs, driveVars, worker, handlers, requests, post, histVars,
                   cleanup_seq, caller, now>>
    /\ UNCHANGED lock

\* download_video, lines 351-353: resolve_ffmpeg_location; its
\* FileNotFoundError propagates to the caller.
DownloadVideo_ResolveFfmpeg ==
    /\ cli.pc = "ffmpeg"
    /\ LET resolved == resolve_ffmpeg_location(cli.ffmpeg_location, cli.bundled)
       IN cli' = IF resolved.raised
                 THEN [cli EXCEPT !.pc = "raised", !.result = Str("FileNotFoundError")]
                 ELSE [cli EXCEPT !.pc = "extract", !.ydl_ffmpeg = resolved.value]
    /\ UNCHANGED <<jobs, fs, driveVars, worker, handlers, requests, post, histVars,
                   cleanup_seq, caller, now>>
    /\ UNCHANGED lock

\* download_video, lines 355-356: the engine writes the file and returns.
DownloadVideo_Extract ==
    /\ cli.pc = "extract"
    /\ cli' = [cli EXCEPT !.pc = "resolve"]
    /\ fs' = fs \cup {OutputFileOf(CHOOSE url \in Urls : TRUE, PathStr(Str(".")))}
    /\ UNCHANGED <<jobs, driveVars, worker, handlers, requests, post, histVars,
                   cleanup_seq, caller, now>>
    /\ UNCHANGED lock

\* download_video, line 363: return _resolve_final_file(final_path).
DownloadVideo_ResolveFinalFile ==
    /\ cli.pc = "resolve"
    /\ LET resolved == resolve_final_file(
                          OutputFileOf(CHOOSE url \in Urls : TRUE, PathStr(Str("."))))
       IN cli' = [cli EXCEPT !.pc = IF resolved.raised THEN "raised" ELSE "returned",
                             !.result = resolved.value]
    /\ UNCHANGED <<jobs, fs, driveVars, worker, handlers, requests, post, histVars,
                   cleanup_seq, caller, now>>
    /\ UNCHANGED lock

\* download_video, lines 355-363: the engine raises, or no file is found.
DownloadVideo_ExtractRaise(m) ==
    /\ cli.pc = "extract"
    /\ cli' = [cli EXCEPT !.pc = "raised", !.result = Str(m)]
    /\ UNCHANGED <<jobs, fs, driveVars, worker, handlers, requests, post, histVars,
                   cleanup_seq, caller, now>>
    /\ UNCHANGED lock

DownloadVideoNext ==
    \/ DownloadVideo_ResolveFormat
    \/ DownloadVideo_ResolveFfmpeg
    \/ DownloadVideo_Extract
    \/ DownloadVideo_ResolveFinalFile
    \/ \E m \in Messages : DownloadVideo_ExtractRaise(m)

DownloadVideoSpec == DownloadVideoInit /\ [][DownloadVideoNext]_vars

\* ------------------------------------------------------------------ the manager, used directly
\* What the caller reads in a dict it holds: the store's dict as it is now, or
\* the items of its own dict.
Items(d) == IF d.stored THEN jobs[d.job_id] ELSE d.items

\* Statuses a caller passes to _update_job, and what it writes into a dict it
\* was returned.
CallerUpdates == {"downloading", "failed"}
CallerEdits == {[status |-> "edited"], [output_file |-> Str("edited")]}

\* A program holds a fresh DownloadManager and no job dict yet.
ManagerInit ==
    /\ ServerInit
    /\ cli = NoCall
    /\ caller = [active |-> TRUE, held |-> <<>>]

ServerIdle ==
    UNCHANGED <<fs, driveVars, worker, handlers, requests, post, histVars, cleanup_seq,
                cli, now>>

\* output_path arguments of create_job.
OutputPaths == {None, Str(""), Str("."), Str("./"), Str("out"), Str("out/"), Str("~")}

\* job = manager.create_job(...): the new dict is stored and its copy returned.
Manager_CreateJob(url, output_path, format_choice, created_at, updated_at) ==
    /\ caller.active
    /\ created_at <= updated_at
    /\ updated_at <= now
    /\ CanLock(Caller)
    /\ lock' = None
    /\ Len(caller.held) < MaxHeld
    /\ Cardinality(DOMAIN jobs) < MaxJobs
    /\ LET job_id == Cardinality(DOMAIN jobs) + 1
           job == NewJob(job_id, url, output_path, format_choice, None,
                         created_at, updated_at)
       IN /\ jobs' = create_job(jobs, job)
          /\ caller' = [caller EXCEPT !.held = Append(@, dict_copy(job_id, job))]
    /\ ServerIdle

\* job = manager.get_job(job_id): a copy of the stored dict, or None.
Manager_GetJob(job_id) ==
    /\ caller.active
    /\ CanLock(Caller)
    /\ lock' = None
    /\ Len(caller.held) < MaxHeld
    /\ job_id \in DOMAIN jobs
    /\ caller' = [caller EXCEPT !.held = Append(@, dict_copy(job_id, jobs[job_id]))]
    /\ UNCHANGED jobs
    /\ ServerIdle

\* The copies list_jobs builds of the jobs with ids from job_id on.
RECURSIVE CopiesFrom(_)
CopiesFrom(job_id) ==
    IF job_id \notin DOMAIN jobs THEN <<>>
    ELSE <<dict_copy(job_id, jobs[job_id])>> \o CopiesFrom(job_id + 1)

\* jobs = manager.list_jobs(): a list of copies, one of every stored dict.
Manager_ListJobs ==
    /\ caller.active
    /\ CanLock(Caller)
    /\ lock' = None
    /\ DOMAIN jobs # {}
    /\ Len(caller.held) + Cardinality(DOMAIN jobs) <= MaxHeld
    /\ caller' = [caller EXCEPT !.held = @ \o CopiesFrom(1)]
    /\ UNCHANGED jobs
    /\ ServerIdle

\* job = manager._update_job(job_id, status=...): the stored dict is updated
\* and its copy returned.
Manager_UpdateJob(job_id, status) ==
    /\ caller.active
    /\ CanLock(Caller)
    /\ lock' = None
    /\ Len(caller.held) < MaxHeld
    /\ ~update_job_raises(jobs, job_id)
    /\ jobs' = update_job(jobs, job_id, [status |-> status])
    /\ caller' = [caller EXCEPT !.held = Append(@, dict_copy(job_id, jobs'[job_id]))]
    /\ ServerIdle

\* job[key] = value on the i-th dict the caller holds.
Manager_Edit(i, edit) ==
    /\ caller.active
    /\ i \in 1..Len(caller.held)
    /\ LET d == caller.held[i]
       IN IF d.stored
          THEN /\ jobs' = [jobs EXCEPT ![d.job_id] = Update(@, edit)]
               /\ UNCHANGED caller
          ELSE /\ caller' = [caller EXCEPT !.held[i].items = Update(@, edit)]
               /\ UNCHANGED jobs
    /\ ServerIdle
    /\ UNCHANGED lock

\* The caller lets go of the dict it has held longest.
Manager_Drop ==
    /\ caller.active
    /\ caller.held # <<>>
    /\ caller' = [caller EXCEPT !.held = Tail(@)]
    /\ UNCHANGED jobs
    /\ ServerIdle
    /\ UNCHANGED lock

ManagerNext ==
    \/ \E url \in Urls, output_path \in OutputPaths, format_choice \in valid_formats,
          created_at \in Clock, updated_at \in Clock :
          Manager_CreateJob(url, output_path, format_choice, created_at, updated_at)
    \/ \E job_id \in JobIds : Manager_GetJob(job_id)
    \/ Manager_ListJobs
    \/ \E job_id \in JobIds, status \in CallerUpdates : Manager_UpdateJob(job_id, status)
    \/ \E i \in 1..MaxHeld, edit \in CallerEdits : Manager_Edit(i, edit)
    \/ Manager_Drop

ManagerSpec == ManagerInit /\ [][ManagerNext]_vars

\* ------------------------------------------------------------------ properties
\* The path process_job's extraction writes for a stored job.
ArtifactOf(j) == OutputFileOf(jobs[j].url, jobs[j].output_path)

\* The artifact fields of a job.
ArtifactFields ==
    {"output_file", "download_url", "remote_file_id", "remote_file_url",
     "remote_file_view_url"}

NoArtifact(job) == \A f \in ArtifactFields : job[f] = None

\* A GET file handler between its mark_delivering and the end of its
\* post-delivery action.
InDelivery ==
    {"read", "mark_dl", "unlink", "drf_get", "drf_client", "drf_credentials",
     "drf_build", "drf_delete", "drf_update", "consume"}

Delivering(h, j) ==
    /\ handlers[h].kind = "download"
    /\ handlers[h].job_id = j
    /\ handlers[h].pc \in InDelivery

\* The status a GET /status of the id would show ("unknown" for a 404).
StatusOf(j) == IF j \in DOMAIN jobs THEN jobs[j].status ELSE "unknown"

\* C1: at most one delivery handler per job is between its mark_delivering and
\* its post-delivery action; a second concurrent request is never served too.
C1_AtMostOneDelivery ==
    \A j \in JobIds : Cardinality({h \in HandlerIds : Delivering(h, j)}) <= 1

\* C2: a job whose status is delivered has output_file, download_url,
\* remote_file_id, remote_file_url and remote_file_view_url all null.
C2_DeliveredHasNoArtifact ==
    \A j \in DOMAIN jobs : jobs[j].status = "delivered" => NoArtifact(jobs[j])

\* A delivered job whose artifact had been uploaded and deleted remotely.
C2_Witness ==
    \E j \in DOMAIN jobs :
        /\ jobs[j].status = "delivered"
        /\ FileIdOf(j) \in drive_deleted

\* C3: once a job has reached delivered, a GET file request arriving in any
\* later state, with any auto_delete, is rejected as gone (410).
C3_GoneAfterDelivered ==
    \A j \in delivered_once, auto_delete \in BOOLEAN :
        DownloadFileChecks(get_job(jobs, j), auto_delete) = Gone

\* C4: failed and delivered are absorbing: no step changes the status of a job
\* that is failed or delivered.
C4_TerminalAbsorbing ==
    [][\A j \in DOMAIN jobs :
          jobs[j].status \in {"failed", "delivered"}
             => jobs'[j].status = jobs[j].status]_vars

\* C5: a job in status delivering eventually leaves it.
C5_DeliveringEventuallyLeaves ==
    \A j \in JobIds :
        (StatusOf(j) = "delivering") ~> (StatusOf(j) # "delivering")

\* What the checks of GET file do with a request, by the status its get_job
\* observed ("unknown" for an unknown id) and auto_delete.
Admitted == <<200, "passes the status check">>

C6_Table(status, auto_delete) ==
    CASE status = "unknown" -> NotFoundJob
      [] status = "delivered" -> Gone
      [] status = "delivering" -> Conflict
      [] status = "completed" -> Admitted
      [] status = "downloaded" ->
            IF auto_delete THEN NotReady("downloaded") ELSE Admitted
      [] status \in {"queued", "downloading", "failed"} -> NotReady(status)

\* C6: the outcome of GET file is determined by the status its get_job
\* observed and by auto_delete. A request in a case the table rejects is
\* answered as the table says. A request in an admitted case (completed, or
\* downloaded with auto_delete=false) is answered 404 "no output_file" exactly
\* when the output_file it observed is null, 404 "file deleted or moved"
\* exactly when the file is missing at its exists() call, and is served
\* otherwise; the artifact is served in no other case.
C6_OutcomeDetermined ==
    [][\A h \in HandlerIds :
          (/\ handlers'[h] # handlers[h]
           /\ handlers'[h].kind = "download"
           /\ handlers'[h].pc = "done")
          => LET r == handlers'[h]
                 expected == C6_Table(r.status, r.auto_delete)
             IN IF expected # Admitted THEN Free(h) /\ r.resp = expected
                ELSE IF Free(h)
                THEN r.resp = NoOutputFile /\ jobs[r.job_id].output_file = None
                ELSE IF handlers[h].pc = "exists"
                THEN r.resp = FileMissing /\ handlers[h].output_file \notin fs
                ELSE r.resp = Served]_vars

\* C7: when the deferred action of an auto-delete delivery has run, the local
\* file is gone, the remote artifact (if one was uploaded) has been asked to be
\* deleted, and the job is delivered with no artifact field; and once an
\* auto-delete delivery has answered, a re-fetch is answered gone.
C7_AutoDeleteDelivery ==
    [][/\ \A h \in HandlerIds :
             (/\ handlers[h].kind = "download"
              /\ handlers[h].pc = "consume"
              /\ handlers'[h].pc = "done")
             => LET j == handlers[h].job_id
                IN /\ handlers[h].output_file \notin fs'
                   /\ FileIdOf(j) \in drive_uploaded'
                         => FileIdOf(j) \in drive_deleted'
                   /\ jobs'[j].status = "delivered"
                   /\ NoArtifact(jobs'[j])
       /\ \A j \in auto_returned', auto_delete \in BOOLEAN :
             DownloadFileChecks(get_job(jobs', j), auto_delete) = Gone]_vars

\* C8: a served delivery with auto_delete=false ends with the job downloaded,
\* output_file and download_url as they were and the file on disk, so that a
\* further request with auto_delete=false passes the checks again.
C8_RetainingDelivery ==
    [][\A h \in HandlerIds :
          (/\ handlers[h].kind = "download"
           /\ handlers[h].pc = "mark_dl"
           /\ handlers'[h].pc = "done")
          => LET j == handlers[h].job_id
             IN /\ jobs'[j].status = "downloaded"
                /\ jobs'[j].output_file = handlers[h].output_file
                /\ jobs'[j].download_url = DownloadUrlOf(j)
                /\ handlers[h].output_file \in fs'
                /\ DownloadFileChecks(jobs'[j], FALSE) = None]_vars

\* C9: when obtaining the relay client or uploading fails after a successful
\* extraction, process_job ends with the job completed, output_file and
\* download_url set, the remote fields null and error set to the failure text;
\* the job then passes the checks of a delivery.
C9_RelayFailureRecorded ==
    [][\A j \in JobIds :
          (/\ worker[j].pc = "complete"
           /\ worker'[j].pc = "done"
           /\ worker[j].remote_error # None)
          => /\ jobs'[j].status = "completed"
             /\ jobs'[j].output_file = worker[j].output_file
             /\ jobs'[j].output_file # None
             /\ jobs'[j].download_url = DownloadUrlOf(j)
             /\ jobs'[j].remote_file_id = None
             /\ jobs'[j].remote_file_url = None
             /\ jobs'[j].remote_file_view_url = None
             /\ jobs'[j].error =
                   <<"Google Drive upload failed: ", worker[j].remote_error[1]>>
             /\ DownloadFileChecks(jobs'[j], TRUE) = None]_vars

\* C10: when extraction raised, process_job ends normally with the job failed,
\* error set to the exception text and no artifact field set.
C10_ExtractionFailure ==
    \A j \in JobIds :
        (worker[j].pc = "done" /\ worker[j].exc # None)
           => /\ jobs[j].status = "failed"
              /\ jobs[j].error = worker[j].exc
              /\ NoArtifact(jobs[j])

\* A task that ended after the extraction raised "boom".
C10_Witness ==
    \E j \in JobIds :
        /\ worker[j].pc = "done"
        /\ worker[j].exc = Str("boom")
        /\ jobs[j].status = "failed"

\* C11: a job that create_job has just stored (and returns a copy of) has
\* status queued, error null and every artifact field null.
C11_FreshJobIsQueuedAndEmpty ==
    [][\A j \in DOMAIN jobs' \ DOMAIN jobs :
          /\ jobs'[j].id = j
          /\ jobs'[j].status = "queued"
          /\ jobs'[j].error = None
          /\ NoArtifact(jobs'[j])]_vars

\* The state right after create_job: the job is stored and its task dispatched.
C11_Witness ==
    \E j \in DOMAIN jobs :
        /\ worker[j].pc = "queued"
        /\ jobs[j].status = "queued"
        /\ jobs[j].url \in Urls

\* C12: DELETE /cleanup is idempotent: a call on a known job returns without
\* error, with the "not found or already removed" result when the job has no
\* artifact file; and the second of two calls in a row leaves the job store
\* and the filesystem as the first call left them.
C12_CleanupIdempotent ==
    [][\A h \in HandlerIds :
          (/\ cleanup_seq.phase \in {"first", "again"}
           /\ cleanup_seq.h = h
           /\ cleanup_seq'.phase = "once")
          => /\ handlers'[h].resp \in {FileDeleted, AlreadyRemoved}
             /\ cleanup_seq.no_file => handlers'[h].resp = AlreadyRemoved
             /\ cleanup_seq.phase = "again"
                   => jobs' = cleanup_seq.jobs /\ fs' = cleanup_seq.fs]_vars

\* Two cleanups in a row have returned: the first disposed of the artifact,
\* the second found nothing to remove.
C12_Witness ==
    \E h \in HandlerIds :
        /\ cleanup_seq.phase = "once"
        /\ cleanup_seq.calls = 2
        /\ handlers[h].kind = "cleanup"
        /\ handlers[h].pc = "done"
        /\ handlers[h].resp = AlreadyRemoved
        /\ StatusOf(handlers[h].job_id) = "delivered"

\* Handler h, serving a DELETE /cleanup of a known job, takes a step.
CleanupStep(h) ==
    /\ handlers[h].kind = "cleanup"
    /\ ~Free(h)
    /\ handlers'[h] # handlers[h]

\* C13 (as amended): a DELETE /cleanup that observed the job completed,
\* delivering or downloaded returns with the job delivered, every artifact
\* field null and the remote artifact (if one was uploaded) asked to be
\* deleted, its unlink removing at most the job's file; one that observed the
\* job queued, downloading, failed or delivered changes neither the job's
\* status, output_file or download_url nor the filesystem, and answers
\* "not found or already removed".
C13_CleanupDisposesFinishedJobs ==
    [][\A h \in HandlerIds :
          CleanupStep(h)
          => LET j == handlers[h].job_id
             IN IF handlers[h].status \in {"completed", "delivering", "downloaded"}
                THEN /\ fs' \in {fs, fs \ {ArtifactOf(j)}}
                     /\ handlers'[h].pc = "done"
                           => /\ jobs'[j].status = "delivered"
                              /\ NoArtifact(jobs'[j])
                              /\ FileIdOf(j) \in drive_uploaded'
                                    => FileIdOf(j) \in drive_deleted'
                              /\ handlers'[h].resp \in {FileDeleted, AlreadyRemoved}
                ELSE /\ jobs'[j].status = jobs[j].status
                     /\ jobs'[j].output_file = jobs[j].output_file
                     /\ jobs'[j].download_url = jobs[j].download_url
                     /\ fs' = fs
                     /\ handlers'[h].pc = "done"
                           => handlers'[h].resp = AlreadyRemoved]_vars

\* A cleanup of a failed job has returned and the job is still failed.
C13_Witness ==
    \E h \in HandlerIds :
        /\ handlers[h].kind = "cleanup"
        /\ handlers[h].pc = "done"
        /\ handlers[h].status = "failed"
        /\ handlers[h].resp = AlreadyRemoved
        /\ StatusOf(handlers[h].job_id) = "failed"

\* C13 (as stated): whatever the status of the known job, when DELETE /cleanup
\* returns the local file is deleted, the remote artifact has been asked to be
\* deleted and the job is delivered with every artifact field null.
C13_CleanupDisposesWhateverStatus ==
    [][\A h \in HandlerIds :
          (CleanupStep(h) /\ handlers'[h].pc = "done")
          => LET j == handlers[h].job_id
             IN /\ ArtifactOf(j) \notin fs'
                /\ FileIdOf(j) \in drive_uploaded'
                      => FileIdOf(j) \in drive_deleted'
                /\ jobs'[j].status = "delivered"
                /\ NoArtifact(jobs'[j])]_vars

\* C14: a GET /status, GET file or DELETE /cleanup that arrives for an id not
\* in the store is answered 404 at once and changes no job, file or task;
\* _update_job raises KeyError for every such id.
C14_UnknownIdIsNotFound ==
    [][/\ \A h \in HandlerIds :
             (/\ requests' = requests + 1
              /\ handlers'[h] # handlers[h]
              /\ handlers'[h].job_id \in JobIds \ DOMAIN jobs)
             => /\ handlers'[h].kind \in {"status", "download", "cleanup"}
                /\ handlers'[h].pc = "done"
                /\ handlers'[h].resp = NotFoundJob
                /\ jobs' = jobs
                /\ fs' = fs
                /\ worker' = worker
                /\ driveVars' = driveVars
       /\ \A id \in JobIds \ DOMAIN jobs : update_job_raises(jobs, id)]_vars

\* A GET file for an id that is not in the store, answered 404.
C14_Witness ==
    \E h \in HandlerIds :
        /\ handlers[h].kind = "download"
        /\ handlers[h].pc = "done"
        /\ handlers[h].job_id \notin DOMAIN jobs
        /\ handlers[h].resp = NotFoundJob

\* The job store and the dispatched tasks after a POST that created job j.
OneJobEnqueued(j) ==
    /\ j \notin DOMAIN jobs
    /\ DOMAIN jobs' = DOMAIN jobs \cup {j}
    /\ \A k \in DOMAIN jobs : jobs'[k] = jobs[k]
    /\ jobs'[j].status = "queued"
    /\ jobs'[j].format = post'.format
    /\ worker[j].pc = "none"
    /\ worker' = [worker EXCEPT ![j].pc = "queued"]
    /\ post'.resp = Enqueued(j)

\* ffmpeg_location is absent or names an existing file or directory.
FfmpegResolvable(ffmpeg_location) ==
    Truthy(ffmpeg_location) => ffmpeg_location[1] \in {FfmpegFile, FfmpegDir}

\* C15 (as amended): POST /download accepts a request exactly when its format
\* is one of the preset keys and its ffmpeg_location, if given, resolves; a
\* rejected request is answered 400, creates no job and dispatches nothing; an
\* accepted request creates exactly one job, queued, and dispatches process_job
\* once for its id; jobs are created and tasks dispatched by no other step.
C15_EnqueueValidatesPresetKeys ==
    [][/\ post' # post
          => IF /\ post'.format \in DOMAIN FORMAT_PRESETS
                /\ FfmpegResolvable(post'.ffmpeg_location)
             THEN \E j \in JobIds : OneJobEnqueued(j)
             ELSE /\ post'.resp \in {BadFormat, BadFfmpeg}
                  /\ jobs' = jobs
                  /\ worker' = worker
       /\ DOMAIN jobs' # DOMAIN jobs => post' # post
       /\ \A j \in JobIds :
             (worker'[j].pc = "queued" /\ worker[j].pc # "queued")
                => j \in DOMAIN jobs' \ DOMAIN jobs]_vars

\* A raw selector has been rejected with 400 after a preset request created a job.
C15_Witness ==
    /\ post.format = "bv*+ba"
    /\ post.resp = BadFormat
    /\ Cardinality(DOMAIN jobs) = 1
    /\ \E j \in DOMAIN jobs : jobs[j].format = "auto"

\* C15 (as stated): the format is valid when it is a preset key or a
\* passthrough selector (any other non-empty string); such a request, with a
\* resolvable ffmpeg_location, is accepted and creates one job.
C15_EnqueueAcceptsPassthrough ==
    [][post' # post
          => IF /\ post'.format \in DOMAIN FORMAT_PRESETS \/ post'.format # ""
                /\ FfmpegResolvable(post'.ffmpeg_location)
             THEN \E j \in JobIds : OneJobEnqueued(j)
             ELSE /\ post'.resp \in {BadFormat, BadFfmpeg}
                  /\ jobs' = jobs
                  /\ worker' = worker]_vars

\* C16: resolve_format_choice returns the preset's non-empty expression for
\* auto, merge_best, video_only and audio_only, any other non-empty string
\* unchanged, and the auto preset's expression for the empty string.
C16_ResolveFormatChoice ==
    cli.pc \in {"ffmpeg", "extract", "resolve", "returned", "raised"}
       => LET f == cli.format_choice
          IN /\ cli.ydl_format # ""
             /\ cli.ydl_format =
                   CASE f = "auto" -> "best"
                     [] f = "merge_best" -> "bv*+ba/best"
                     [] f = "video_only" -> "bv*"
                     [] f = "audio_only" -> "ba/best"
                     [] f = "" -> "best"
                     [] OTHER -> f

\* download_video was called with an empty format_choice and resolved it to
\* the auto preset's expression.
C16_Witness ==
    /\ cli.pc = "returned"
    /\ cli.format_choice = ""
    /\ cli.ydl_format = FORMAT_PRESETS["auto"]

\* C17: a job whose process_job has been dispatched eventually has status
\* completed or failed, when the worker keeps being scheduled and the
\* extraction and the upload each return or raise.
C17_DispatchedJobFinishes ==
    \A j \in JobIds :
        (worker[j].pc = "queued") ~> (StatusOf(j) \in {"completed", "failed"})

\* A dispatched task has ended after an upload, and its job is completed.
C17_Witness ==
    \E j \in DOMAIN jobs :
        /\ worker[j].pc = "done"
        /\ jobs[j].status = "completed"
        /\ jobs[j].remote_file_id = FileIdOf(j)

\* C18: in every state, a job's output_file is non-null exactly when the
\* artifact file exists on disk: a recorded output_file names a file that
\* exists, and once process_job has returned, an artifact that is still on
\* disk is recorded.
C18_OutputFileIffFileExists ==
    \A j \in DOMAIN jobs :
        /\ jobs[j].output_file # None => jobs[j].output_file \in fs
        /\ (worker[j].pc = "done" /\ ArtifactOf(j) \in fs)
              => jobs[j].output_file = ArtifactOf(j)

\* The edges of the status state machine.
SpecEdges ==
    {<<"queued", "downloading">>, <<"downloading", "completed">>,
     <<"downloading", "failed">>, <<"completed", "delivering">>,
     <<"delivering", "delivered">>, <<"delivering", "downloaded">>,
     <<"downloaded", "delivering">>}

\* The status changes DELETE /cleanup makes.
CleanupEdges ==
    {<<"completed", "delivered">>, <<"delivering", "delivered">>,
     <<"downloaded", "delivered">>}

\* C19: every change of a job's status is one of the edges of the state
\* machine, and none leaves delivered. The moves that DELETE /cleanup makes
\* straight into delivered (C13) are let pass here, so that a step which
\* violates this formula violates the statement of the claim on another
\* count than these.
C19_StatusChangesFollowEdges ==
    [][\A j \in DOMAIN jobs :
          jobs'[j].status # jobs[j].status
             => <<jobs[j].status, jobs'[j].status>> \in SpecEdges \cup CleanupEdges]_vars

\* C20: in every state, output_file is non-null only if the status is
\* completed, delivering or downloaded, and a job in one of these statuses has
\* output_file and download_url non-null.
C20_OutputFileMatchesStatus ==
    \A j \in DOMAIN jobs :
        LET holding == jobs[j].status \in {"completed", "delivering", "downloaded"}
        IN /\ jobs[j].output_file # None => holding
           /\ holding => jobs[j].output_file # None /\ jobs[j].download_url # None

\* The positions of a handler inside _cleanup_after_delivery or inside the
\* delete_remote_file and mark_file_consumed calls of manual_cleanup.
Disposing == {"unlink", "drf_get", "drf_client", "drf_credentials", "drf_build",
              "drf_delete", "drf_update", "consume"}

\* C21 (as amended): disposal never surfaces an error. Whether the unlink
\* removed the file or failed (file already missing, OS error) and whether the
\* remote delete worked, raised or was skipped for want of a client, a
\* _cleanup_after_delivery, and a manual cleanup that observed the job
\* completed, delivering or downloaded, returns normally and leaves the job
\* delivered with every artifact field null; a manual cleanup that observed
\* the job queued, downloading, failed or delivered returns normally too,
\* with "not found or already removed", and leaves the job's status as it is.
C21_DisposalIsBestEffort ==
    [][\A h \in HandlerIds :
          (/\ handlers[h].pc \in Disposing
           /\ handlers'[h].pc = "done"
           /\ handlers[h].kind \in {"download", "cleanup"})
          => LET j == handlers[h].job_id
             IN IF \/ handlers[h].kind = "download" /\ handlers[h].consume
                   \/ /\ handlers[h].kind = "cleanup"
                      /\ handlers[h].status \in {"completed", "delivering", "downloaded"}
                THEN /\ handlers'[h].resp \in {Served, FileDeleted, AlreadyRemoved}
                     /\ jobs'[j].status = "delivered"
                     /\ NoArtifact(jobs'[j])
                ELSE IF handlers[h].kind = "cleanup"
                THEN /\ handlers'[h].resp = AlreadyRemoved
                     /\ jobs'[j].status = jobs[j].status
                ELSE handlers'[h].resp = Served]_vars

\* C21 (as stated): every _cleanup_after_delivery and every manual cleanup of
\* a known job returns normally and leaves the job delivered with every
\* artifact field null.
C21_DisposalAlwaysDelivers ==
    [][\A h \in HandlerIds :
          (/\ handlers[h].pc \in Disposing
           /\ handlers'[h].pc = "done"
           /\ \/ handlers[h].kind = "download" /\ handlers[h].consume
              \/ handlers[h].kind = "cleanup")
          => LET j == handlers[h].job_id
             IN /\ handlers'[h].resp \in {Served, FileDeleted, AlreadyRemoved}
                /\ jobs'[j].status = "delivered"
                /\ NoArtifact(jobs'[j])]_vars

\* A manual cleanup has returned "file deleted" although its unlink failed
\* (the file is still on disk) and its remote delete raised; the job is
\* delivered.
C21_Witness ==
    \E h \in HandlerIds :
        LET j == handlers[h].job_id
        IN /\ handlers[h].kind = "cleanup"
           /\ handlers[h].pc = "done"
           /\ handlers[h].resp = FileDeleted
           /\ ArtifactOf(j) \in fs
           /\ FileIdOf(j) \in drive_failed
           /\ jobs[j].status = "delivered"
           /\ NoArtifact(jobs[j])

\* C22: create_job, get_job, list_jobs and _update_job return snapshots:
\* writing into a returned dict leaves the store, and so what get_job and
\* list_jobs return later, as it was; and no step changes what the caller
\* reads in a dict it already holds and does not write into itself.
C22_ReturnedDictsAreSnapshots ==
    [][/\ (\E i \in 1..MaxHeld, edit \in CallerEdits : Manager_Edit(i, edit))
             => /\ jobs' = jobs
                /\ \A j \in JobIds : get_job(jobs', j) = get_job(jobs, j)
       /\ \A i \in 1..Len(caller.held) :
             (/\ Len(caller'.held) >= Len(caller.held)
              /\ ~(\E edit \in CallerEdits : Manager_Edit(i, edit)))
             => /\ caller'.held[i].job_id = caller.held[i].job_id
                /\ Items(caller.held[i]) =
                      (IF caller'.held[i].stored
                       THEN jobs'[caller'.held[i].job_id]
                       ELSE caller'.held[i].items)]_vars

\* The caller holds the dict create_job returned, still queued, and a dict it
\* wrote "edited" into, while the store has the job downloading.
C22_Witness ==
    /\ Len(caller.held) = 2
    /\ \E j \in DOMAIN jobs :
          /\ jobs[j].status = "downloading"
          /\ caller.held[1].job_id = j
          /\ Items(caller.held[1]).status = "queued"
          /\ caller.held[2].job_id = j
          /\ Items(caller.held[2]).status = "edited"

\* A step is a call of _update_job, mark_delivering, mark_downloaded or
\* mark_file_consumed on job j.
Mutates(j) ==
    \/ /\ worker[j].pc \in {"start", "complete", "fail"}
       /\ worker'[j] # worker[j]
    \/ \E h \in HandlerIds :
          /\ handlers[h].job_id = j
          /\ handlers[h].pc \in {"mark", "mark_dl", "drf_update", "consume"}
          /\ handlers'[h] # handlers[h]

\* C23: with a clock that does not go backwards, a job's updated_at never
\* decreases and is never smaller than its created_at, and every mutation of
\* the job (every call of _update_job or of a mark_* method, and every step
\* that changes the stored job) sets updated_at to the time of the call.
C23_UpdatedAtMonotone ==
    [][/\ now' >= now
       /\ \A j \in DOMAIN jobs' :
             /\ jobs'[j].created_at <= jobs'[j].updated_at
             /\ jobs'[j].updated_at <= now
             /\ j \in DOMAIN jobs
                   => /\ jobs[j].updated_at <= jobs'[j].updated_at
                      /\ (Mutates(j) \/ jobs'[j] # jobs[j])
                            => jobs'[j].updated_at = now]_vars

\* A job created at time 0 was marked downloaded after the clock moved on.
C23_Witness ==
    \E j \in DOMAIN jobs :
        /\ jobs[j].status = "downloaded"
        /\ jobs[j].created_at = 0
        /\ jobs[j].updated_at = MaxClock
        /\ jobs[j].created_at < jobs[j].updated_at

\* The fields of a job that create_job sets for good.
ImmutableFields == {"id", "url", "output_path", "format", "ffmpeg_location", "created_at"}

\* C24: a job's id, url, output_path, format, ffmpeg_location and created_at
\* never change after create_job: no step of process_job, of a delivery or of
\* a manual cleanup, and no passing of time, changes any of them on a stored
\* job.
C24_RequestFieldsImmutable ==
    [][\A j \in DOMAIN jobs :
          /\ j \in DOMAIN jobs'
          /\ \A f \in ImmutableFields : jobs'[j][f] = jobs[j][f]]_vars

\* A job created at time 0 with a resolved ffmpeg_location has been through
\* process_job, a delivery and its disposal, and still carries what create_job
\* stored.
C24_Witness ==
    \E j \in DOMAIN jobs :
        /\ jobs[j].status = "delivered"
        /\ jobs[j].updated_at > jobs[j].created_at
        /\ jobs[j].id = j
        /\ jobs[j].url \in Urls
        /\ jobs[j].output_path = "."
        /\ jobs[j].format = "auto"
        /\ jobs[j].ffmpeg_location = Str(FfmpegDir)

\* Thread t is inside the extraction (download_video has been called and has
\* not returned), inside the upload, or inside the remote delete.
InsideCall(t) ==
    \/ \E j \in JobIds : t = Task(j) /\ worker[j].pc \in {"extract", "resolve", "upload"}
    \/ \E h \in HandlerIds : t = Handler(h) /\ handlers[h].pc = "drf_delete"

\* C25: the lock is not held across the extraction, the upload or the remote
\* delete. While a thread is inside one of them, it does not hold the lock;
\* when the lock is free, every call of the manager that is due can be made
\* at once: create_job by a POST, get_job by a request for any job, list_jobs
\* by a GET /jobs, and the get_job, update or mark_* call that any task or
\* handler has reached; and when the lock is held, its holder stands at a
\* `with self._lock:` block and can run and leave it, whatever the thread
\* inside the call does: a task or a handler its call of the manager, the
\* thread of a POST create_job, the thread of an arriving request its get_job
\* or list_jobs.
C25_LockFreeDuringCalls ==
    (\E t \in Threads : InsideCall(t))
    => /\ \A t \in Threads : InsideCall(t) => lock # t
       /\ lock # None
             => /\ AtLock(lock)
                /\ \A j \in JobIds : lock = Task(j) => ENABLED WorkerStep(j)
                /\ \A h \in HandlerIds :
                      lock = Handler(h) /\ ~Free(h) => ENABLED HandlerRun(h)
                /\ \A h \in HandlerIds, job_id \in JobIds :
                      lock = Handler(h) /\ Free(h)
                      => /\ ENABLED GetStatus(h, job_id)
                         /\ ENABLED ListJobs(h)
                         /\ ENABLED ManualCleanup_Begin(h, job_id)
                         /\ ENABLED DownloadFile_Begin(h, job_id, FALSE, TRUE)
                /\ lock = Poster
                      => \A url \in Urls :
                            ENABLED EnqueueDownload(url, None, "auto", None, now, now)
       /\ lock = None
             => /\ Cardinality(DOMAIN jobs) < MaxJobs /\ requests < MaxRequests
                      => /\ ENABLED AcquireLock(Poster)
                         /\ \A url \in Urls :
                               ENABLED EnqueueDownload(url, None, "auto", None, now, now)
                /\ \A h \in HandlerIds, job_id \in JobIds :
                      Accepts(h)
                      => /\ ENABLED AcquireLock(Handler(h))
                         /\ ENABLED GetStatus(h, job_id)
                         /\ ENABLED ListJobs(h)
                         /\ ENABLED ManualCleanup_Begin(h, job_id)
                         /\ ENABLED DownloadFile_Begin(h, job_id, FALSE, TRUE)
                /\ \A j \in JobIds :
                      worker[j].pc \in TaskStorePcs
                      => ENABLED WorkerStep(j) /\ ENABLED AcquireLock(Task(j))
                /\ \A h \in HandlerIds :
                      handlers[h].pc \in HandlerStorePcs
                      => ENABLED HandlerRun(h) /\ ENABLED AcquireLock(Handler(h))

\* While process_job is inside the extraction for one job, another task holds
\* the lock for its get_job, and a GET /status of the first job has been
\* answered with the job downloading.
C25_Witness ==
    \E j \in JobIds, k \in JobIds, h \in HandlerIds :
        /\ worker[j].pc = "extract"
        /\ lock = Task(k)
        /\ worker[k].pc = "queued"
        /\ handlers[h].kind = "status"
        /\ handlers[h].job_id = j
        /\ handlers[h].pc = "done"
        /\ handlers[h].status = "downloading"
        /\ handlers[h].resp = JobSnapshot

\* C26: the set of stored ids only grows: no step removes a job; a step that
\* stores a job stores it under an id that was not in use and leaves every
\* other job as it was; and for every id that create_job has returned (a task
\* was dispatched for it, or a POST was answered with it) get_job returns the
\* job with that id.
C26_JobsAreNeverRemoved ==
    [][/\ DOMAIN jobs \subseteq DOMAIN jobs'
       /\ \A j \in DOMAIN jobs' \ DOMAIN jobs :
             /\ DOMAIN jobs' = DOMAIN jobs \cup {j}
             /\ \A k \in DOMAIN jobs : jobs'[k] = jobs[k]
       /\ \A j \in JobIds :
             (worker'[j].pc # "none" \/ post'.resp = Enqueued(j))
                => /\ get_job(jobs', j) # None
                   /\ get_job(jobs', j).id = j]_vars

\* A GET /status has found the job after its artifact was delivered and
\* disposed of.
C26_Witness ==
    \E h \in HandlerIds :
        /\ handlers[h].kind = "status"
        /\ handlers[h].pc = "done"
        /\ handlers[h].status = "delivered"
        /\ handlers[h].resp = JobSnapshot
        /\ get_job(jobs, handlers[h].job_id) # None

\* A GET file handler after its mark_delivering whose post-delivery action
\* (mark_downloaded or _cleanup_after_delivery) has not begun: the file is
\* being read, or has been sent and the deferred action is due.
InFlight == {"read", "mark_dl", "unlink"}

\* C27: while a delivery handler for a job is in flight, no step of another
\* request or task changes the job's status or deletes the job's local file.
C27_NoInterferenceDuringDelivery ==
    [][\A h \in HandlerIds :
          (/\ handlers[h].kind = "download"
           /\ handlers[h].pc \in InFlight
           /\ handlers'[h] = handlers[h])
          => LET j == handlers[h].job_id
             IN /\ jobs'[j].status = jobs[j].status
                /\ handlers[h].output_file \in fs => handlers[h].output_file \in fs']_vars

\* The responses that reject a GET file request: 404, 409 and 410.
Rejections ==
    {NotFoundJob, Gone, Conflict, NoOutputFile, FileMissing}
    \cup {NotReady(status) : status \in Statuses}

\* C28: a GET file request that is rejected leaves the job store (status and
\* updated_at included), the filesystem, the relay and the tasks unchanged,
\* and nothing of it remains to run: it is answered before mark_delivering,
\* in the step of its get_job or of its file check, and every request that
\* the status table rejects, or whose file is missing, is answered so at once.
C28_RejectedDeliveryChangesNothing ==
    [][\A h \in HandlerIds :
          (handlers'[h].kind = "download" /\ handlers'[h] # handlers[h])
          => /\ (handlers'[h].pc = "done" /\ handlers'[h].resp \in Rejections)
                   => /\ Free(h) \/ handlers[h].pc = "exists"
                      /\ jobs' = jobs
                      /\ fs' = fs
                      /\ driveVars' = driveVars
                      /\ worker' = worker
             /\ (Free(h) \/ handlers[h].pc = "exists")
                   => jobs' = jobs /\ fs' = fs
             /\ C6_Table(handlers'[h].status, handlers'[h].auto_delete) # Admitted
                   => /\ handlers'[h].pc = "done"
                      /\ handlers'[h].resp \in Rejections
             /\ (handlers[h].pc = "exists" /\ handlers[h].output_file \notin fs)
                   => /\ handlers'[h].pc = "done"
                      /\ handlers'[h].resp = FileMissing]_vars

\* A GET file was answered 409 while another delivery had the job delivering;
\* the clock has moved on since that delivery's mark_delivering and the job's
\* updated_at has not.
C28_Witness ==
    \E h \in HandlerIds :
        LET j == handlers[h].job_id
        IN /\ handlers[h].kind = "download"
           /\ handlers[h].pc = "done"
           /\ handlers[h].resp = Conflict
           /\ j \in DOMAIN jobs
           /\ jobs[j].status = "delivering"
           /\ jobs[j].updated_at < now

\* The three remote fields of a job.
RemoteFields == {"remote_file_id", "remote_file_url", "remote_file_view_url"}

\* C29: in every state the three remote fields of a job are all null or all
\* set. They are set only to what a successful upload of the job's artifact
\* returned, on a job that is completed, delivering or downloaded; they are
\* null once delete_remote_file has called the client and written its update,
\* on every delivered job (mark_file_consumed) and after a failed execution.
C29_RemoteFieldsAllOrNone ==
    \A j \in DOMAIN jobs :
        LET job == jobs[j]
            unset == \A f \in RemoteFields : job[f] = None
        IN /\ unset \/ \A f \in RemoteFields : job[f] # None
           /\ ~unset
                 => /\ \E has_view_link \in BOOLEAN :
                          LET remote_details == UploadFile(j, has_view_link)
                          IN /\ job.remote_file_id = remote_details.file_id
                             /\ job.remote_file_url = remote_details.download_url
                             /\ job.remote_file_view_url = remote_details.view_url
                    /\ FileIdOf(j) \in drive_uploaded
                    /\ job.status \in {"completed", "delivering", "downloaded"}
           /\ (/\ FileIdOf(j) \in drive_deleted
               /\ \A h \in HandlerIds :
                     ~(handlers[h].job_id = j /\ handlers[h].pc = "drf_update"))
                 => unset
           /\ job.status \in {"failed", "delivered"} => unset
           /\ (worker[j].pc = "done" /\ worker[j].exc # None) => unset

\* delete_remote_file has deleted the uploaded artifact and reset the three
\* fields of a job that mark_file_consumed has not reached yet.
C29_Witness ==
    \E j \in DOMAIN jobs :
        /\ FileIdOf(j) \in drive_uploaded
        /\ FileIdOf(j) \in drive_deleted
        /\ \A f \in RemoteFields : jobs[j][f] = None
        /\ jobs[j].status \in {"completed", "delivering"}
        /\ jobs[j].output_file # None

====
